---- MODULE Spec2Model ----
(***************************************************************************)
(* State-machine model of strprox's META autocompleter                     *)
(* (src/src/strprox/prefix/meta/mod.rs): the range-encoded trie, the       *)
(* inverted index, the two deduction rules, the prefix cache and the       *)
(* autocomplete glue.                                                      *)
(*                                                                         *)
(* Conventions.  A string is its UTF-8 byte sequence (Rust's str); chars() *)
(* is Utf8Decode and len() is the byte length.  Node ids, string indices   *)
(* and slab handles are 0-based as in the source; a TLA+ sequence holds    *)
(* element k of a Rust Vec at position k + 1.  A Rust panic is the record  *)
(* field panic = TRUE; a panicked call ends the run.                       *)
(***************************************************************************)
EXTENDS Integers, Sequences, FiniteSets

VARIABLES
    source,           \* the strings handed to MetaAutocompleter::new
    built,            \* whether new() has run
    strings,          \* Trie::strings
    nodes,            \* Trie::nodes
    index,            \* InvertedIndex::index
    overflow_checks,  \* the build profile: TRUE panics on integer overflow, FALSE wraps
    build,            \* Trie::new in progress: its phase, the frames of init_nodes
                      \* and the *node_id counter
    cached_prefix,    \* Cache::cached_prefix, key (chars) |-> PState
    slab,             \* CacheMap::slab
    lru_prio,         \* CacheMap::prio, Instant |-> set of slab handles
    now,              \* the value the next Instant::now() returns
    calls,            \* the number of calls made so far
    used_ops,         \* the operations called so far
    out,              \* what the last call returned
    mid,              \* cached_prefix inside the last assemble call: after the
                      \* first visit and after the rows are stored
    dset,             \* the matching set handed to a deduction call
    dout              \* what the deduction call returned

vars == <<source, built, strings, nodes, index, overflow_checks, build, cached_prefix,
          slab, lru_prio, now, calls, used_ops, out, mid, dset, dout>>

trieVars == <<source, built, strings, nodes, index, overflow_checks, build>>
cacheVars == <<cached_prefix, slab, lru_prio, now, calls, used_ops, out, mid>>
deduceVars == <<dset, dout>>

(***************************************************************************)
(* Bounds of the model                                                     *)
(***************************************************************************)
\* strings per dataset and characters per string, construction runs
MaxStrings == 3
MaxLen == 2
\* strings per dataset and characters per string, query runs
MaxQStrings == 2
MaxQLen == 2
\* characters per query, budget, calls per run
MaxQueryLen == 2
MaxB == 2
MaxOps == 3
\* deduction runs: matchings in the input set, characters per query
MaxSetSize == 2
MaxDQueryLen == 2
\* characters of the longest string of stepwise construction runs past the
\* largest depth UUU holds
MaxOver == 1

\* 'a', 'b', e-acute (two bytes in UTF-8)
\* the characters of construction runs: 'a' and e-acute (two bytes in UTF-8)
TrieChars == {97, 233}
\* the characters of the datasets of query and deduction runs: 'a', 'b'
DataChars == {97, 98}

(***************************************************************************)
(* Integer widths and wrapping arithmetic                                  *)
(***************************************************************************)
\* type UUU = u8
UMod == 256

AsU(x) == x % UMod

Max2(a, b) == IF a >= b THEN a ELSE b
Min2(a, b) == IF a <= b THEN a ELSE b
SatSub(a, b) == IF a >= b THEN a - b ELSE 0
AbsDiff(a, b) == IF a >= b THEN a - b ELSE b - a

(***************************************************************************)
(* UTF-8                                                                   *)
(***************************************************************************)
CharMax == 1114111

Utf8(c) ==
    IF c < 128 THEN <<c>>
    ELSE IF c < 2048 THEN <<192 + (c \div 64), 128 + (c % 64)>>
    ELSE IF c < 65536
         THEN <<224 + (c \div 4096), 128 + ((c \div 64) % 64), 128 + (c % 64)>>
         ELSE <<240 + (c \div 262144), 128 + ((c \div 4096) % 64),
                128 + ((c \div 64) % 64), 128 + (c % 64)>>

len_utf8(c) == Len(Utf8(c))

RECURSIVE Utf8Encode(_)
Utf8Encode(cs) == IF cs = <<>> THEN <<>> ELSE Utf8(Head(cs)) \o Utf8Encode(Tail(cs))

\* the first char of a non-empty byte string
FirstChar(bs) ==
    LET b == bs[1] IN
    IF b < 128 THEN b
    ELSE IF b < 224 THEN (b - 192) * 64 + (bs[2] - 128)
    ELSE IF b < 240 THEN (b - 224) * 4096 + (bs[2] - 128) * 64 + (bs[3] - 128)
    ELSE (b - 240) * 262144 + (bs[2] - 128) * 4096 + (bs[3] - 128) * 64 + (bs[4] - 128)

ByteSuffix(bs, from) == SubSeq(bs, from + 1, Len(bs))

RECURSIVE Utf8Decode(_)
Utf8Decode(bs) ==
    IF bs = <<>> THEN <<>>
    ELSE LET c == FirstChar(bs)
         IN <<c>> \o Utf8Decode(ByteSuffix(bs, len_utf8(c)))

\* the next Unicode scalar value, -1 for None
char_succ(character) ==
    IF character = CharMax THEN -1
    ELSE IF character = 55295 THEN 57344
    ELSE character + 1

(***************************************************************************)
(* Order on strings, sort and dedup                                        *)
(***************************************************************************)
\* lexicographic order of two sequences of numbers
SeqLess(a, b) ==
    \E k \in 1..Len(b) :
        /\ Len(a) >= k - 1
        /\ \A j \in 1..(k - 1) : a[j] = b[j]
        /\ (Len(a) = k - 1 \/ a[k] < b[k])

\* whether sequence a is a prefix of sequence b
IsPrefixOf(a, b) == Len(a) <= Len(b) /\ SubSeq(b, 1, Len(a)) = a

RECURSIVE SortInsert(_, _)
SortInsert(s, sorted) ==
    IF sorted = <<>> THEN <<s>>
    ELSE IF SeqLess(s, Head(sorted)) THEN <<s>> \o sorted
    ELSE <<Head(sorted)>> \o SortInsert(s, Tail(sorted))

RECURSIVE SortStrings(_)
SortStrings(ss) == IF ss = <<>> THEN <<>> ELSE SortInsert(Head(ss), SortStrings(Tail(ss)))

RECURSIVE Dedup(_)
Dedup(ss) ==
    IF Len(ss) <= 1 THEN ss
    ELSE IF ss[1] = ss[2] THEN Dedup(Tail(ss))
    ELSE <<ss[1]>> \o Dedup(Tail(ss))

\* slice.partition_point(|x| x < marker) on strings[start..end]
StringPartitionPoint(strs, start, end, marker) ==
    Cardinality({j \in (start + 1)..end : SeqLess(strs[j], marker)})

(***************************************************************************)
(* Trie                                                                    *)
(***************************************************************************)
\* Node::id
NodeId(node) == node.descendant_range.start - 1

\* Node::first_descendant_id
first_descendant_id(node) == node.descendant_range.start

\* mutant: the string range is stored as if its end were inclusive
NewNodeMutant(last_char, depth, prefix, start, end) ==
    [character |-> last_char,
     descendant_range |-> [start |-> 0, end |-> 0],
     string_range |-> [start |-> start, end |-> Max2(start, end - 1)],
     depth |-> depth,
     prefix |-> prefix]

\* The node pushed by init_nodes.  prefix is the value of init_nodes' prefix
\* argument at the push: the node does not store it, the properties read it.
NewNode(last_char, depth, prefix, start, end) ==
    [character |-> last_char,
     descendant_range |-> [start |-> 0, end |-> 0],
     string_range |-> [start |-> start, end |-> end],
     depth |-> depth,
     prefix |-> prefix]

\* depth + 1 on UUU: wraps where overflow checks are off
DepthSucc(depth) == AsU(depth + 1)

\* the boundary of the strings whose prefix is extended with next_char
ChildEnd(strs, prefix, next_char, start, end) ==
    IF char_succ(next_char) # -1
    THEN start + StringPartitionPoint(strs, start, end,
                                      prefix \o Utf8(char_succ(next_char)))
    ELSE end

\* mutant: the range ends at the last descendant instead of one past it
DescendantRangeOfMutant(current_id, node_id) ==
    [start |-> current_id + 1, end |-> Max2(current_id + 1, node_id - 1)]

\* the range init_nodes gives the current node once its subtree is built
DescendantRangeOf(current_id, node_id) == [start |-> current_id + 1, end |-> node_id]

RECURSIVE init_nodes(_, _, _, _, _, _, _, _), InitNodesLoop(_, _, _, _, _, _, _, _)

\* st = [nodes, node_id]: the node vector and the *node_id counter
init_nodes(strs, st, depth, prefix, last_char, suffix_start, start, end) ==
    LET current_id == st.node_id
        st1 == [nodes |-> Append(st.nodes, NewNode(last_char, depth, prefix, start, end)),
                node_id |-> st.node_id + 1]
        st2 == InitNodesLoop(strs, st1, depth, prefix, suffix_start, start, end, start)
    IN [st2 EXCEPT !.nodes[current_id + 1].descendant_range =
                       DescendantRangeOf(current_id, st2.node_id)]

\* the while loop of init_nodes, from child_start
InitNodesLoop(strs, st, depth, prefix, suffix_start, start, end, child_start) ==
    IF child_start = end THEN st
    ELSE LET suffix == ByteSuffix(strs[child_start + 1], suffix_start) IN
         IF suffix = <<>>
         THEN InitNodesLoop(strs, st, depth, prefix, suffix_start, start, end,
                            child_start + 1)
         ELSE LET next_char == FirstChar(suffix)
                  child_end == ChildEnd(strs, prefix, next_char, start, end)
                  next_prefix == prefix \o Utf8(next_char)
                  next_suffix_start == suffix_start + len_utf8(next_char)
                  st1 == init_nodes(strs, st, DepthSucc(depth), next_prefix, next_char,
                                    next_suffix_start, child_start, child_end)
              IN InitNodesLoop(strs, st1, depth, prefix, suffix_start, start, end,
                               child_end)

\* strings.sort(); strings.dedup()
SortedStrings(src) == Dedup(SortStrings(src))

\* Trie::new
TrieNew(src) ==
    LET strs == SortedStrings(src)
        st == init_nodes(strs, [nodes |-> <<>>, node_id |-> 0], 0, <<>>, 0, 0, 0,
                         Len(strs))
    IN [strings |-> strs, nodes |-> st.nodes]

(***************************************************************************)
(* Inverted index                                                          *)
(***************************************************************************)
RECURSIVE SortNatInsert(_, _)
SortNatInsert(x, sorted) ==
    IF sorted = <<>> THEN <<x>>
    ELSE IF x < Head(sorted) THEN <<x>> \o sorted
    ELSE <<Head(sorted)>> \o SortNatInsert(x, Tail(sorted))

RECURSIVE SortNat(_)
SortNat(xs) == IF xs = <<>> THEN <<>> ELSE SortNatInsert(Head(xs), SortNat(Tail(xs)))

MaxOfSet(S) == IF S = {} THEN 0 ELSE CHOOSE y \in S : \A z \in S : z <= y

\* mutant: max_depth is the depth of the last node
IndexMaxDepthMutant(ns) == ns[Len(ns)].depth

\* the first loop of InvertedIndex::new
IndexMaxDepth(ns) == MaxOfSet({ns[k].depth : k \in 1..Len(ns)})

RECURSIVE PushedIds(_, _, _)
\* the ids pushed to index[depth][character], in node order
PushedIds(ns, depth, character) ==
    IF ns = <<>> THEN <<>>
    ELSE LET rest == PushedIds(Tail(ns), depth, character) IN
         IF Head(ns).depth = depth /\ Head(ns).character = character
         THEN <<NodeId(Head(ns))>> \o rest
         ELSE rest

\* InvertedIndex::new: position depth + 1 holds the char map of depth
InvertedIndexNew(ns) ==
    [d \in 1..(IndexMaxDepth(ns) + 1) |->
        [c \in {ns[k].character : k \in {j \in 1..Len(ns) : ns[j].depth = d - 1}} |->
            SortNat(PushedIds(ns, d - 1, c))]]

\* InvertedIndex::max_depth
max_depth(ix) == Len(ix) - 1

\* InvertedIndex::get: panic on a depth past the last, ids = <<>> with found = FALSE
\* for None
IndexGet(ix, depth, character) ==
    IF depth + 1 > Len(ix) THEN [panic |-> TRUE, found |-> FALSE, ids |-> <<>>]
    ELSE IF character \in DOMAIN ix[depth + 1]
         THEN [panic |-> FALSE, found |-> TRUE, ids |-> ix[depth + 1][character]]
         ELSE [panic |-> FALSE, found |-> FALSE, ids |-> <<>>]

\* MetaAutocompleter::new
MetaNew(src) ==
    LET trie == TrieNew(src)
    IN [strings |-> trie.strings, nodes |-> trie.nodes,
        index |-> InvertedIndexNew(trie.nodes)]

(***************************************************************************)
(* Matching sets: a function from the key <<query_prefix_len, node>> to    *)
(* the edit distance                                                       *)
(***************************************************************************)
EmptySet == <<>>

\* MatchingSet::contains
Contains(set, query_prefix_len, node) == <<query_prefix_len, node>> \in DOMAIN set

\* MatchingSet::insert (HashMap::insert: the new value replaces the stored one)
Insert(set, query_prefix_len, node, edit_distance) ==
    [k \in DOMAIN set \cup {<<query_prefix_len, node>>} |->
        IF k = <<query_prefix_len, node>> THEN edit_distance ELSE set[k]]

\* HashMap::extend: the entries of b replace those of a with the same key
Extend(a, b) ==
    [k \in DOMAIN a \cup DOMAIN b |-> IF k \in DOMAIN b THEN b[k] ELSE a[k]]

\* MatchingSet::new_trie
new_trie(ns) == Insert(EmptySet, 0, NodeId(ns[1]), 0)

\* Matching::deduced_edit_distance, m = <<query_prefix_len, node, edit_distance>>
deduced_edit_distance(m, query_len, stored_len, ns) ==
    m[3] + Max2(SatSub(query_len, m[1]), SatSub(stored_len, ns[m[2] + 1].depth))

\* the matchings MatchingSet::iter yields
Matchings(set) == {<<k[1], k[2], set[k]>> : k \in DOMAIN set}

(***************************************************************************)
(* Descendant enumeration                                                  *)
(***************************************************************************)
\* slice.partition_point(|&id| id < bound) on a sorted bucket
IdPartitionPoint(ids, bound) == Cardinality({k \in 1..Len(ids) : ids[k] < bound})

\* mutant: the lower bound of the slice is the node's own id
traverse_inverted_index_mutant(ns, ix, node, depth, character) ==
    LET got == IndexGet(ix, depth, character)
        start == IdPartitionPoint(got.ids, NodeId(ns[node + 1]))
        end == IdPartitionPoint(got.ids, ns[node + 1].descendant_range.end)
    IN IF got.panic THEN [panic |-> TRUE, ids |-> <<>>]
       ELSE [panic |-> FALSE, ids |-> SubSeq(got.ids, start + 1, end)]

\* MetaAutocompleter::traverse_inverted_index: the ids handed to the visitor,
\* in order
traverse_inverted_index(ns, ix, node, depth, character) ==
    LET got == IndexGet(ix, depth, character)
        start == IdPartitionPoint(got.ids, first_descendant_id(ns[node + 1]))
        end == IdPartitionPoint(got.ids, ns[node + 1].descendant_range.end)
    IN IF got.panic THEN [panic |-> TRUE, ids |-> <<>>]
       ELSE [panic |-> FALSE, ids |-> SubSeq(got.ids, start + 1, end)]

SeqToSet(xs) == {xs[k] : k \in 1..Len(xs)}

MinOfSet(S) == CHOOSE y \in S : \A z \in S : y <= z

(***************************************************************************)
(* First deduction                                                         *)
(***************************************************************************)
\* the lower bound (query_len - 1 - b) as UUU, where the subtraction wrapped
FirstLowerBound(query_len, b) == AsU(query_len - 1 - b)

\* the filter of first_deducing on m1
FirstFilter(m1, query_len, b) ==
    /\ m1[3] <= AsU(b)
    /\ m1[1] >= FirstLowerBound(query_len, b)
    /\ m1[1] <= AsU(query_len - 1)

\* whether the filter's subtraction overflows on m1 (a panic with overflow checks)
FirstFilterOverflows(m1, query_len, b) ==
    m1[3] <= AsU(b) /\ query_len - 1 - b < 0

\* the pairs <<n2, ded>> the visitor of first_deducing records for m1
\* (query_len >= 1 here: with query_len = 0 the filter admits only
\* query_prefix_len >= 255 - b)
FirstCandidates(ns, ix, m1, character, query_len, b) ==
    LET m1_depth == ns[m1[2] + 1].depth
        depths == {d \in (m1_depth + 1)..Min2(m1_depth + b + 1, max_depth(ix)) :
                      AbsDiff(query_len, d) <= b}
    IN UNION {
         {<<id, AsU(deduced_edit_distance(m1, query_len - 1, SatSub(d, 1), ns))>> :
              id \in SeqToSet(traverse_inverted_index(ns, ix, m1[2], d, character).ids)}
         : d \in depths}

\* MetaAutocompleter::first_deducing
first_deducing(ns, ix, oc, set, character, query_len, b) ==
    LET ms == Matchings(set)
        cands == {c \in UNION {FirstCandidates(ns, ix, m1, character, query_len, b) :
                                  m1 \in {m \in ms : FirstFilter(m, query_len, b)}} :
                     c[2] <= AsU(b)}
        ids == {c[1] : c \in cands}
    IN IF oc /\ \E m1 \in ms : FirstFilterOverflows(m1, query_len, b)
       THEN [panic |-> TRUE, delta |-> EmptySet]
       ELSE [panic |-> FALSE,
             delta |-> [k \in {<<AsU(query_len), n>> : n \in ids} |->
                           MinOfSet({c[2] : c \in {x \in cands : x[1] = k[2]}})]]

(***************************************************************************)
(* Second deduction                                                        *)
(***************************************************************************)
\* min(x, cap) for x computed on usize as base + b - e + 1: a negative x stands
\* for the wrapped, huge value
MinWrapped(x, cap) == IF x >= 0 THEN Min2(x, cap) ELSE cap

\* the filter of second_deducing on m; b as UUU - 1 wraps to 255 for b = 0
SecondFilter(m, query_len, b) ==
    /\ m[3] <= (IF AsU(b) = 0 THEN UMod - 1 ELSE AsU(b) - 1)
    /\ m[1] <= AsU(query_len)

\* mutant: the check closure does not look the key up in the input set
CheckMutant(ns, set, m, b, node, query_prefix_len) ==
    deduced_edit_distance(m, query_prefix_len - 1, ns[node + 1].depth - 1, ns) = b

\* the check closure: whether (query_prefix_len, node) is accepted for matching m
Check(ns, set, m, b, node, query_prefix_len) ==
    /\ ~Contains(set, AsU(query_prefix_len), node)
    /\ deduced_edit_distance(m, query_prefix_len - 1, ns[node + 1].depth - 1, ns) = b

\* the keys one traverse_inverted_index call of per_matching accepts
SweepKeys(ns, ix, set, m, b, depth, character, query_prefix_len) ==
    {<<AsU(query_prefix_len), id>> :
        id \in {x \in SeqToSet(traverse_inverted_index(ns, ix, m[2], depth, character).ids) :
                   Check(ns, set, m, b, x, query_prefix_len)}}

\* the depth the last traverse_inverted_index call of per_matching asks for
CornerDepth(last_depth, last_query_prefix_len) == last_query_prefix_len

\* the per_matching closure of second_deducing: [panic, keys]
per_matching(ns, ix, oc, set, query, query_len, b, m) ==
    LET depth == ns[m[2] + 1].depth
        last_depth == MinWrapped(depth + b - m[3] + 1, max_depth(ix))
        last_query_prefix_len == MinWrapped(m[1] + b - m[3] + 1, query_len)
        columns == (m[1] + 1)..(last_query_prefix_len - 1)
        rows == (depth + 1)..(last_depth - 1)
        corner == CornerDepth(last_depth, last_query_prefix_len)
        panics ==
            \/ oc /\ (depth + b < m[3] \/ m[1] + b < m[3])
            \/ \E i \in columns : i > Len(query)
            \/ last_query_prefix_len < 1
            \/ last_query_prefix_len > Len(query)
            \/ corner > max_depth(ix)
    IN IF panics THEN [panic |-> TRUE, keys |-> {}]
       ELSE LET last_character == query[last_query_prefix_len] IN
            [panic |-> FALSE,
             keys |->
                UNION {IF AbsDiff(i, last_depth) <= b
                       THEN SweepKeys(ns, ix, set, m, b, last_depth, query[i], i)
                       ELSE {} : i \in columns}
                \cup
                UNION {IF AbsDiff(last_query_prefix_len, d) <= b
                       THEN SweepKeys(ns, ix, set, m, b, d, last_character,
                                      last_query_prefix_len)
                       ELSE {} : d \in rows}
                \cup
                SweepKeys(ns, ix, set, m, b, corner, last_character,
                          last_query_prefix_len)]

\* MetaAutocompleter::second_deducing
second_deducing(ns, ix, oc, set, query, query_len, b) ==
    LET ms == Matchings(set)
        each == {per_matching(ns, ix, oc, set, query, query_len, b, m) :
                    m \in {x \in ms : SecondFilter(x, query_len, b)}}
    IN IF (oc /\ ms # {} /\ AsU(b) = 0) \/ \E r \in each : r.panic
       THEN [panic |-> TRUE, delta |-> EmptySet]
       ELSE [panic |-> FALSE,
             delta |-> [k \in UNION {r.keys : r \in each} |-> AsU(b)]]

(***************************************************************************)
(* Prefix cache                                                            *)
(*                                                                         *)
(* A cache is [cached_prefix, slab, lru_prio, now].  cached_prefix models  *)
(* the ptrie map as a function from the keys that hold a value to their    *)
(* PState [sets, prio, ix]; find_prefixes yields the 0-based position of   *)
(* the last character of every prefix of the key that holds a value.       *)
(***************************************************************************)
\* Cache::default
EmptyCache == [cached_prefix |-> <<>>, slab |-> <<>>, lru_prio |-> <<>>, now |-> 0]

\* the key of position i of chars: query_chars[..=i]
KeyAt(chars, i) == SubSeq(chars, 1, i + 1)

RECURSIVE FindPrefixesFrom(_, _, _)
FindPrefixesFrom(cp, chars, i) ==
    IF i >= Len(chars) THEN <<>>
    ELSE (IF KeyAt(chars, i) \in DOMAIN cp THEN <<i>> ELSE <<>>)
             \o FindPrefixesFrom(cp, chars, i + 1)

\* mutant: the first character's prefix is skipped
find_prefixes_mutant(cp, chars) == FindPrefixesFrom(cp, chars, 1)

\* PTrie::find_prefixes
find_prefixes(cp, chars) == FindPrefixesFrom(cp, chars, 0)

\* CacheMap::rm
LruRm(prio, t, k) ==
    IF t \in DOMAIN prio THEN [prio EXCEPT ![t] = prio[t] \ {k}] ELSE prio

RECURSIVE LruRmAll(_, _, _, _)
\* the loop of visit over li that removes every found entry from the LRU index
LruRmAll(prio, cp, chars, li) ==
    IF li = <<>> THEN prio
    ELSE LET e == cp[KeyAt(chars, Head(li))]
         IN LruRmAll(LruRm(prio, e.prio, e.ix), cp, chars, Tail(li))

\* PTrie::insert: the value of an existing key is replaced
PTrieInsert(cp, key, value) ==
    [k \in DOMAIN cp \cup {key} |-> IF k = key THEN value ELSE cp[k]]

\* whether visit takes the branch that returns the entries found
VisitFoundAll(li, query) == Len(li) = Len(query)

\* Cache::visit: [panic, cache, li]
visit(c, query) ==
    LET chars == Utf8Decode(query)
        li == find_prefixes(c.cached_prefix, chars)
        prio1 == LruRmAll(c.lru_prio, c.cached_prefix, chars, li)
    IN IF VisitFoundAll(li, query)
       THEN IF li = <<>>
            THEN [panic |-> TRUE, cache |-> [c EXCEPT !.lru_prio = prio1], li |-> li]
            ELSE LET key == KeyAt(chars, li[Len(li)])
                     tip == c.cached_prefix[key]
                 IN [panic |-> FALSE,
                     cache |-> [c EXCEPT !.lru_prio = LruRm(prio1, tip.prio, tip.ix),
                                         !.cached_prefix[key].prio = c.now,
                                         !.now = c.now + 1],
                     li |-> li]
       ELSE LET cp1 == PTrieInsert(c.cached_prefix, chars,
                                   [sets |-> <<>>, prio |-> c.now, ix |-> Len(c.slab)])
            IN [panic |-> FALSE,
                cache |-> [cached_prefix |-> cp1, slab |-> Append(c.slab, query),
                           lru_prio |-> prio1, now |-> c.now + 1],
                li |-> find_prefixes(cp1, chars)]

\* let max = 1000 in prune, scaled to the model
PruneCapacity == 1

\* the keys of the LRU index in ascending order
RECURSIVE AscendingKeys(_)
AscendingKeys(S) ==
    IF S = {} THEN <<>> ELSE <<MinOfSet(S)>> \o AscendingKeys(S \ {MinOfSet(S)})

\* PTrie::remove_subtree: the key and every key it is a prefix of lose their value
RemoveSubtrees(cp, prefixes) ==
    [k \in {x \in DOMAIN cp : ~\E p \in prefixes : Len(p) <= Len(x) /\ SubSeq(x, 1, Len(p)) = p}
        |-> cp[k]]

\* MetaAutocompleter::prune: [panic, cache]
prune(c) ==
    LET keys == AscendingKeys(DOMAIN c.lru_prio) IN
    IF Len(keys) < PruneCapacity THEN [panic |-> FALSE, cache |-> c]
    ELSE IF Len(keys) <= PruneCapacity THEN [panic |-> TRUE, cache |-> c]
    ELSE LET cutoff == keys[Len(keys) - PruneCapacity]
             old == {t \in DOMAIN c.lru_prio : t < cutoff}
             handles == UNION {c.lru_prio[t] : t \in old}
         IN IF \E h \in handles : h >= Len(c.slab)
            THEN [panic |-> TRUE, cache |-> c]
            ELSE [panic |-> FALSE,
                  cache |-> [c EXCEPT
                      !.cached_prefix =
                          RemoveSubtrees(c.cached_prefix,
                                         {Utf8Decode(c.slab[h + 1]) : h \in handles}),
                      !.lru_prio = [t \in DOMAIN c.lru_prio \ old |-> c.lru_prio[t]]]]

(***************************************************************************)
(* assemble and autocomplete                                               *)
(***************************************************************************)
\* the positions of li whose entry has no row
Missing(cp, chars, li) ==
    {i \in SeqToSet(li) : Len(cp[KeyAt(chars, i)].sets) < 1}

\* the PState assemble stores for a computed row
ComputedState(s, t) == [sets |-> <<s>>, prio |-> t, ix |-> 0]

RECURSIVE PutRows(_, _, _, _)
\* the loop of assemble over the missing positions, in ascending order
PutRows(c, chars, todo, s) ==
    IF todo = <<>> THEN c
    ELSE PutRows([c EXCEPT !.cached_prefix[KeyAt(chars, Head(todo))] =
                               ComputedState(s, c.now),
                           !.now = c.now + 1],
                 chars, Tail(todo), s)

RECURSIVE UnionRows(_, _, _)
\* the fold of assemble over li: each row extends the union of the earlier ones
UnionRows(cp, chars, li) ==
    IF li = <<>> THEN EmptySet
    ELSE Extend(UnionRows(cp, chars, SubSeq(li, 1, Len(li) - 1)),
                cp[KeyAt(chars, li[Len(li)])].sets[1])

RECURSIVE RaiseBudget(_, _, _, _, _, _, _)
\* one round of the loop for t in 2..=b: row1 is extended by the delta r of round t
RaiseStep(ns, ix, oc, row1, query_chars, t, b, r) ==
    IF r.panic THEN [panic |-> TRUE, set |-> row1]
    ELSE RaiseBudget(ns, ix, oc, Extend(row1, r.delta), query_chars, t + 1, b)

\* the loop for t in 2..=b of assemble, from t: [panic, set]
RaiseBudget(ns, ix, oc, row1, query_chars, t, b) ==
    IF t > b THEN [panic |-> FALSE, set |-> row1]
    ELSE RaiseStep(ns, ix, oc, row1, query_chars, t, b,
                   second_deducing(ns, ix, oc, row1, query_chars, Len(query_chars), t))

\* the character and query length assemble hands to first_deducing for position i
FirstDeducingArgs(query_chars, i) ==
    [character |-> query_chars[Len(query_chars)], query_len |-> Len(query_chars)]

\* the result of a call that panicked with cache c: [panic, cache, set, visit1, put]
Panicked(c, v1, c2) ==
    [panic |-> TRUE, cache |-> c, set |-> EmptySet, visit1 |-> v1.cache, put |-> c2]

\* assemble from the second visit v2 on: the fold over li indexes sets[0] of every
\* entry found, then the loop over t raises the budget
AssembleVisited(ns, ix, oc, query_chars, b, v1, c2, v2, raised) ==
    IF v2.panic
       \/ \E i \in SeqToSet(v2.li) : v2.cache.cached_prefix[KeyAt(query_chars, i)].sets = <<>>
    THEN Panicked(v2.cache, v1, c2)
    ELSE [panic |-> raised.panic, cache |-> v2.cache, set |-> raised.set,
          visit1 |-> v1.cache, put |-> c2]

\* assemble from the cache c2 the put loop leaves
AssemblePut(ns, ix, oc, query_chars, b, v1, c2, v2) ==
    AssembleVisited(ns, ix, oc, query_chars, b, v1, c2, v2,
        RaiseBudget(ns, ix, oc, UnionRows(v2.cache.cached_prefix, query_chars, v2.li),
                    query_chars, 2, b))

\* assemble from the missing positions todo on; s is the result of the
\* first_deducing call the put loop makes for each of them
AssembleMissing(ns, ix, oc, q, query_chars, b, v1, todo, s, c2) ==
    IF todo # <<>> /\ s.panic THEN Panicked(v1.cache, v1, v1.cache)
    ELSE AssemblePut(ns, ix, oc, query_chars, b, v1, c2, visit(c2, q))

\* assemble from the first visit v1 on
AssembleFirst(ns, ix, oc, q, query_chars, b, v1, todo, s) ==
    IF v1.panic THEN Panicked(v1.cache, v1, v1.cache)
    ELSE AssembleMissing(ns, ix, oc, q, query_chars, b, v1, todo, s,
                         PutRows(v1.cache, query_chars, todo, s.delta))

\* the rows the first visit v1 found without a set, and the first_deducing call
AssembleQuery(ns, ix, oc, q, query_chars, b, v1, args) ==
    AssembleFirst(ns, ix, oc, q, query_chars, b, v1,
        AscendingKeys(Missing(v1.cache.cached_prefix, query_chars, v1.li)),
        first_deducing(ns, ix, oc, new_trie(ns), args.character, args.query_len, b))

\* MetaAutocompleter::assemble: [panic, cache, set, visit1, put], where visit1 and
\* put are the cache after the first visit and after the rows are stored
assemble(ns, ix, oc, c, q, b) ==
    AssembleQuery(ns, ix, oc, q, Utf8Decode(q), b, visit(c, q),
                  FirstDeducingArgs(Utf8Decode(q), 0))

\* Trie::fill_results over the nodes of a matching set: the HashSet of strings
FillResults(strs, ns, set) ==
    {strs[j + 1] : j \in UNION {
        {x \in 0..(Len(strs) - 1) : /\ ns[m[2] + 1].string_range.start <= x
                                    /\ x < ns[m[2] + 1].string_range.end}
        : m \in Matchings(set)}}

\* levenshtein::prefix_edit_distance: the least edit distance between the
\* characters of a and those of a prefix of b
prefix_edit_distance(a, b) ==
    LET x == Utf8Decode(a)
        y == Utf8Decode(b)
        d[i \in 0..Len(x), j \in 0..Len(y)] ==
            IF i = 0 THEN j
            ELSE IF j = 0 THEN i
            ELSE Min2(Min2(d[i - 1, j] + 1, d[i, j - 1] + 1),
                      d[i - 1, j - 1] + (IF x[i] = y[j] THEN 0 ELSE 1))
    IN MinOfSet({d[Len(x), j] : j \in 0..Len(y)})

\* Ord for MeasuredPrefix: by prefix_distance, then by string
MeasuredLess(r1, r2) ==
    \/ r1.prefix_distance < r2.prefix_distance
    \/ r1.prefix_distance = r2.prefix_distance /\ SeqLess(r1.string, r2.string)

RECURSIVE SortMeasured(_)
\* result.sort() on the records collected from the HashSet
SortMeasured(S) ==
    IF S = {} THEN <<>>
    ELSE LET least == CHOOSE r \in S : \A o \in S \ {r} : MeasuredLess(r, o)
         IN <<least>> \o SortMeasured(S \ {least})

RECURSIVE SortByString(_)
SortByString(S) ==
    IF S = {} THEN <<>>
    ELSE LET least == CHOOSE r \in S : \A o \in S \ {r} : SeqLess(r.string, o.string)
         IN <<least>> \o SortByString(S \ {least})

\* mutant: the records are sorted by string alone
measure_results_mutant(result, query) ==
    SortByString({[string |-> str, prefix_distance |-> prefix_edit_distance(query, str)] :
                     str \in result})

\* measure_results
measure_results(result, query) ==
    SortMeasured({[string |-> str, prefix_distance |-> prefix_edit_distance(query, str)] :
                     str \in result})

\* autocomplete from the result r of assemble(query, 1) on
Measured(strs, ns, query, r) ==
    [panic |-> r.panic, cache |-> r.cache, set |-> r.set,
     list |-> IF r.panic THEN <<>> ELSE measure_results(FillResults(strs, ns, r.set), query),
     visit1 |-> r.visit1, put |-> r.put]

\* MetaAutocompleter::autocomplete: [panic, cache, set, list, visit1, put]
autocomplete(strs, ns, ix, oc, c, query) ==
    Measured(strs, ns, query, assemble(ns, ix, oc, c, query, 1))

(***************************************************************************)
(* Inputs                                                                  *)
(***************************************************************************)
\* the char sequences of at most n characters of A
CharSeqs(A, n) == UNION {[1..k -> A] : k \in 0..n}

\* the strings of at most n characters of A
StringsOver(A, n) == {Utf8Encode(cs) : cs \in CharSeqs(A, n)}

\* the datasets of construction runs: unsorted, possibly duplicated
Sources == UNION {[1..k -> StringsOver(TrieChars, MaxLen)] : k \in 0..MaxStrings}

NoOut == [op |-> "none", q |-> <<>>, b |-> 0, panic |-> FALSE, set |-> <<>>,
          list |-> <<>>]
NoMid == [used |-> FALSE, visit1 |-> <<>>, put |-> <<>>]
\* no Trie::new call in progress
NoBuild == [phase |-> "idle", stack |-> <<>>, node_id |-> 0]

NoDout == [op |-> "none", query |-> <<>>, i |-> 0, b |-> 0, c |-> 0, panic |-> FALSE,
           delta |-> <<>>]

\* Cache::default()
CacheInit ==
    /\ cached_prefix = EmptyCache.cached_prefix
    /\ slab = EmptyCache.slab
    /\ lru_prio = EmptyCache.lru_prio
    /\ now = EmptyCache.now
    /\ calls = 0
    /\ used_ops = {}
    /\ out = NoOut
    /\ mid = NoMid

(***************************************************************************)
(* Construction runs: MetaAutocompleter::new on a dataset                  *)
(***************************************************************************)
InitTrie ==
    /\ source \in Sources
    /\ built = FALSE
    /\ strings = <<>>
    /\ nodes = <<>>
    /\ index = <<>>
    /\ overflow_checks \in BOOLEAN
    /\ build = NoBuild
    /\ CacheInit
    /\ dset = <<>>
    /\ dout = NoDout

New ==
    /\ ~built
    /\ LET m == MetaNew(source) IN
        /\ strings' = m.strings
        /\ nodes' = m.nodes
        /\ index' = m.index
    /\ built' = TRUE
    /\ UNCHANGED <<source, overflow_checks, build>>
    /\ UNCHANGED cacheVars
    /\ UNCHANGED deduceVars

NextTrie == New

SpecTrie == InitTrie /\ [][NextTrie]_vars

(***************************************************************************)
(* Stepwise construction runs: Trie::new with one step per call of         *)
(* init_nodes and per round of its while loop, for strings as long as the  *)
(* depth type is wide                                                      *)
(***************************************************************************)
\* the string of n characters c
Rep(c, n) == [k \in 1..n |-> c]

\* one long string of 'a', alone or with one short string
LongSources ==
    {<<Rep(97, n)>> : n \in (UMod - 2)..(UMod - 1 + MaxOver)}
    \cup {<<Rep(97, n), s>> : n \in (UMod - 2)..(UMod - 1 + MaxOver),
                               s \in StringsOver(DataChars, 1)}

InitBuild ==
    /\ source \in LongSources
    /\ built = FALSE
    /\ strings = <<>>
    /\ nodes = <<>>
    /\ index = <<>>
    /\ overflow_checks \in BOOLEAN
    /\ build = NoBuild
    /\ CacheInit
    /\ dset = <<>>
    /\ dout = NoDout

\* the frame of an init_nodes call that pushed its node as current_id
Frame(current_id, depth, prefix, suffix_start, start, end) ==
    [current_id |-> current_id, depth |-> depth, prefix |-> prefix,
     suffix_start |-> suffix_start, start |-> start, end |-> end, child_start |-> start]

\* Trie::new up to the first statement of the while loop of the root call
TrieNewBegin ==
    /\ build.phase = "idle"
    /\ ~built
    /\ strings' = SortedStrings(source)
    /\ nodes' = <<NewNode(0, 0, <<>>, 0, Len(strings'))>>
    /\ build' = [phase |-> "running", node_id |-> 1,
                 stack |-> <<Frame(0, 0, <<>>, 0, 0, Len(strings'))>>]
    /\ UNCHANGED <<source, built, index, overflow_checks>>
    /\ UNCHANGED cacheVars
    /\ UNCHANGED deduceVars

\* the while loop of the innermost call has ended: the call sets its node's
\* descendant range and returns
InitNodesReturn ==
    /\ build.phase = "running"
    /\ LET top == build.stack[Len(build.stack)] IN
        /\ top.child_start = top.end
        /\ nodes' = [nodes EXCEPT ![top.current_id + 1].descendant_range =
                                      DescendantRangeOf(top.current_id, build.node_id)]
        /\ build' = [build EXCEPT
                        !.stack = SubSeq(build.stack, 1, Len(build.stack) - 1),
                        !.phase = IF Len(build.stack) = 1 THEN "done" ELSE "running"]
    /\ UNCHANGED <<source, built, strings, index, overflow_checks>>
    /\ UNCHANGED cacheVars
    /\ UNCHANGED deduceVars

\* one round of the while loop of the innermost call on a string that ends at
\* the current prefix
InitNodesSkip ==
    /\ build.phase = "running"
    /\ LET top == build.stack[Len(build.stack)] IN
        /\ top.child_start # top.end
        /\ ByteSuffix(strings[top.child_start + 1], top.suffix_start) = <<>>
        /\ build' = [build EXCEPT !.stack[Len(build.stack)].child_start = top.child_start + 1]
    /\ UNCHANGED <<source, built, strings, nodes, index, overflow_checks>>
    /\ UNCHANGED cacheVars
    /\ UNCHANGED deduceVars

\* one round of the while loop of the innermost call up to the push of the
\* child's node: depth + 1 panics with overflow checks and wraps without; the
\* caller resumes at child_end
InitNodesCall ==
    /\ build.phase = "running"
    /\ LET top == build.stack[Len(build.stack)]
           suffix == ByteSuffix(strings[top.child_start + 1], top.suffix_start)
       IN
        /\ top.child_start # top.end
        /\ suffix # <<>>
        /\ LET next_char == FirstChar(suffix)
               child_end == ChildEnd(strings, top.prefix, next_char, top.start, top.end)
               next_prefix == top.prefix \o Utf8(next_char)
               next_suffix_start == top.suffix_start + len_utf8(next_char)
           IN IF overflow_checks /\ top.depth + 1 >= UMod
              THEN /\ build' = [build EXCEPT !.phase = "panic"]
                   /\ UNCHANGED nodes
              ELSE /\ nodes' = Append(nodes, NewNode(next_char, DepthSucc(top.depth),
                                                     next_prefix, top.child_start,
                                                     child_end))
                   /\ build' = [build EXCEPT
                         !.node_id = build.node_id + 1,
                         !.stack = Append(
                             [build.stack EXCEPT ![Len(build.stack)].child_start =
                                                     child_end],
                             Frame(build.node_id, DepthSucc(top.depth), next_prefix,
                                   next_suffix_start, top.child_start, child_end))]
    /\ UNCHANGED <<source, built, strings, index, overflow_checks>>
    /\ UNCHANGED cacheVars
    /\ UNCHANGED deduceVars

NextBuild == TrieNewBegin \/ InitNodesReturn \/ InitNodesSkip \/ InitNodesCall

SpecBuild == InitBuild /\ [][NextBuild]_vars

\* the number of characters of a UTF-8 string: its bytes that start a character
CharCount(bytes) == Cardinality({j \in 1..Len(bytes) : bytes[j] \notin 128..191})

\* C14: Trie::new never returns a trie in which the depth of a node differs
\* from the number of characters of the node's prefix.
C14_DepthIsPrefixLength ==
    build.phase = "done" =>
        \A k \in 1..Len(nodes) : nodes[k].depth = CharCount(nodes[k].prefix)

(***************************************************************************)
(* Deduction runs: first_deducing and second_deducing on a built index     *)
(* and an input matching set                                               *)
(***************************************************************************)
\* the datasets of query and deduction runs, as sorted sequences
QSources ==
    {SortedStrings(src) :
        src \in UNION {[1..k -> StringsOver(DataChars, MaxQLen)] : k \in 0..MaxQStrings}}

\* the matching sets of at most MaxSetSize matchings over the nodes of ns
InputSets(ns) ==
    LET keys == (0..MaxDQueryLen) \X (0..(Len(ns) - 1))
        doms == {D \in SUBSET keys : Cardinality(D) <= MaxSetSize}
    IN UNION {[D -> 0..MaxB] : D \in doms}

DQueries == CharSeqs(DataChars, MaxDQueryLen)

InitBuilt(src) ==
    /\ source = src
    /\ built = TRUE
    /\ LET m == MetaNew(src) IN
        /\ strings = m.strings
        /\ nodes = m.nodes
        /\ index = m.index
    /\ overflow_checks \in BOOLEAN
    /\ build = NoBuild

InitDeduce ==
    /\ \E src \in QSources : InitBuilt(src)
    /\ CacheInit
    /\ dset \in InputSets(nodes)
    /\ dout = NoDout

\* each run applies one deduction call to its input set
FirstDeducing ==
    /\ dout.op = "none"
    /\ \E c \in DataChars : \E i \in 0..MaxDQueryLen : \E b \in 0..MaxB :
        \E r \in {first_deducing(nodes, index, overflow_checks, dset, c, i, b)} :
        /\ dout' = [op |-> "first", query |-> <<>>, i |-> i, b |-> b, c |-> c,
                    panic |-> r.panic, delta |-> r.delta]
        /\ UNCHANGED <<dset>>
        /\ UNCHANGED trieVars
        /\ UNCHANGED cacheVars

SecondDeducing ==
    /\ dout.op = "none"
    /\ \E q \in DQueries : \E i \in 0..Len(q) : \E b \in 1..MaxB :
        \E r \in {second_deducing(nodes, index, overflow_checks, dset, q, i, b)} :
        /\ dout' = [op |-> "second", query |-> q, i |-> i, b |-> b, c |-> 0,
                    panic |-> r.panic, delta |-> r.delta]
        /\ UNCHANGED <<dset>>
        /\ UNCHANGED trieVars
        /\ UNCHANGED cacheVars

NextDeduce == FirstDeducing \/ SecondDeducing

SpecDeduce == InitDeduce /\ [][NextDeduce]_vars

\* C8: every matching second_deducing(S, query, i, b) returns has edit distance
\* b, and its key is not a key of S.
C8_SecondDeductionExact ==
    (dout.op = "second" /\ ~dout.panic) =>
        \A k \in DOMAIN dout.delta :
            /\ dout.delta[k] = dout.b
            /\ ~Contains(dset, k[1], k[2])

\* a call on a set of two matchings that returns a matching whose node is in
\* the set under another query prefix length
C8_Witness ==
    /\ dout.op = "second"
    /\ ~dout.panic
    /\ Cardinality(DOMAIN dset) = 2
    /\ \E k \in DOMAIN dout.delta : \E j \in DOMAIN dset : k[2] = j[2] /\ k[1] # j[1]

\* C18: the lower bound i - 1 - b of first deduction saturates at 0 and no
\* subtraction underflows: first_deducing({(0, root, 0)}, c, 1, 1) returns
\* (1, n, 0) for every depth-1 node n with character c and (1, n, 1) for every
\* depth-2 node n with character c, and a call with i = 0 returns an empty delta.
C18_LowerBoundSaturates ==
    dout.op = "first" =>
        /\ ~dout.panic
        /\ dout.i = 0 => dout.delta = EmptySet
        /\ (dset = new_trie(nodes) /\ dout.i = 1 /\ dout.b = 1) =>
               dout.delta =
                   [k \in {<<1, n>> : n \in {x \in 0..(Len(nodes) - 1) :
                                               /\ nodes[x + 1].character = dout.c
                                               /\ nodes[x + 1].depth \in {1, 2}}}
                       |-> nodes[k[2] + 1].depth - 1]

\* the depth and query prefix length at which per_matching ends its sweeps for m
LastDepthOf(m, b) == MinWrapped(nodes[m[2] + 1].depth + b - m[3] + 1, max_depth(index))
LastLenOf(m, query_len, b) == MinWrapped(m[1] + b - m[3] + 1, query_len)

\* C19: on an index with a non-empty string, the corner step of second_deducing
\* looks the inverted index up at last_depth, a depth in 1..max_depth.
C19_CornerAtLastDepth ==
    (dout.op = "second" /\ max_depth(index) >= 1) =>
        \A m \in {x \in Matchings(dset) : SecondFilter(x, dout.i, dout.b)} :
            (1 <= LastLenOf(m, dout.i, dout.b)
                /\ LastLenOf(m, dout.i, dout.b) <= Len(dout.query)) =>
                /\ CornerDepth(LastDepthOf(m, dout.b), LastLenOf(m, dout.i, dout.b))
                       = LastDepthOf(m, dout.b)
                /\ CornerDepth(LastDepthOf(m, dout.b), LastLenOf(m, dout.i, dout.b))
                       \in 1..max_depth(index)

\* the pairs <<n2, e>> of the definition of first deduction: n2 a descendant of
\* the node of a matching (i1, n1, e1) of set with e1 <= b and
\* max(0, i - 1 - b) <= i1 <= i - 1, with character c at a depth d in
\* d1 + 1..min(d1 + b + 1, max_depth) with |i - d| <= b
SpecifiedPairs(set, c, i, b) ==
    UNION {
        {<<n2, m[3] + Max2(i - 1 - m[1], nodes[n2 + 1].depth - 1 - nodes[m[2] + 1].depth)>> :
            n2 \in {x \in 0..(Len(nodes) - 1) :
                      /\ m[2] < x
                      /\ x < nodes[m[2] + 1].descendant_range.end
                      /\ nodes[x + 1].character = c
                      /\ nodes[x + 1].depth >= nodes[m[2] + 1].depth + 1
                      /\ nodes[x + 1].depth <= Min2(nodes[m[2] + 1].depth + b + 1,
                                                    max_depth(index))
                      /\ AbsDiff(i, nodes[x + 1].depth) <= b}}
        : m \in {x \in Matchings(set) :
                    x[3] <= b /\ Max2(0, i - 1 - b) <= x[1] /\ x[1] <= i - 1}}

\* the delta of the definition: per node the least distance, when it is <= b
SpecifiedDelta(set, c, i, b) ==
    LET pairs == {p \in SpecifiedPairs(set, c, i, b) : p[2] <= b} IN
    [k \in {<<i, p[1]>> : p \in pairs} |->
        MinOfSet({p[2] : p \in {x \in pairs : x[1] = k[2]}})]

\* C20: first_deducing(S, c, i, b) returns exactly the matchings (i, n2, e) of
\* the definition of first deduction with the lower bound max(0, i - 1 - b).
C20_FirstDeductionExact ==
    dout.op = "first" =>
        /\ ~dout.panic
        /\ dout.delta = SpecifiedDelta(dset, dout.c, dout.i, dout.b)

(***************************************************************************)
(* Matching-set runs: MatchingSet::insert and HashMap::extend on a         *)
(* matching set                                                            *)
(***************************************************************************)
\* the datasets of matching-set runs: at most one string
SetSources == {src \in QSources : Len(src) <= 1}

\* the matching sets of at most one matching over the nodes of ns
RowSets(ns) == {s \in InputSets(ns) : Cardinality(DOMAIN s) <= 1}

InitSet ==
    /\ \E src \in SetSources : InitBuilt(src)
    /\ CacheInit
    /\ dset \in InputSets(nodes)
    /\ dout = NoDout

\* set.insert(Matching {query_prefix_len: i, node: n, edit_distance: e})
InsertMatching ==
    /\ dout.op = "none"
    /\ \E i \in 0..MaxDQueryLen : \E n \in 0..(Len(nodes) - 1) : \E e \in 0..MaxB :
        dout' = [op |-> "insert", i |-> i, node |-> n, e |-> e, panic |-> FALSE,
                 delta |-> Insert(dset, i, n, e)]
    /\ UNCHANGED <<dset>>
    /\ UNCHANGED trieVars
    /\ UNCHANGED cacheVars

\* row1.matchings.extend(other.matchings)
ExtendRow ==
    /\ dout.op = "none"
    /\ \E other \in RowSets(nodes) :
        dout' = [op |-> "extend", other |-> other, panic |-> FALSE,
                 delta |-> Extend(dset, other)]
    /\ UNCHANGED <<dset>>
    /\ UNCHANGED trieVars
    /\ UNCHANGED cacheVars

NextSet == InsertMatching \/ ExtendRow

SpecSet == InitSet /\ [][NextSet]_vars

TraverseChars == TrieChars \cup {0, 98}

InitTraverse ==
    /\ \E src \in Sources : InitBuilt(src)
    /\ CacheInit
    /\ dset = <<>>
    /\ dout = NoDout

\* each run applies one traversal; the visitor records the ids it is handed
Traverse ==
    /\ dout.op = "none"
    /\ \E p \in 0..(Len(nodes) - 1) : \E depth \in 0..(max_depth(index) + 1) :
        \E character \in TraverseChars :
        \E r \in {traverse_inverted_index(nodes, index, p, depth, character)} :
        dout' = [op |-> "traverse", node |-> p, depth |-> depth,
                 character |-> character, panic |-> r.panic, ids |-> r.ids]
    /\ UNCHANGED <<dset>>
    /\ UNCHANGED trieVars
    /\ UNCHANGED cacheVars

NextTraverse == Traverse

SpecTraverse == InitTraverse /\ [][NextTraverse]_vars

(***************************************************************************)
(* Query runs: visit, assemble, autocomplete and prune on a built index    *)
(* and one cache                                                           *)
(***************************************************************************)
\* the characters of queries: 'a' and e-acute
QueryChars == {97, 233}

Queries == StringsOver(QueryChars, MaxQueryLen)

Init ==
    /\ \E src \in QSources : InitBuilt(src)
    /\ CacheInit
    /\ dset = EmptySet
    /\ dout = NoDout

CurrentCache ==
    [cached_prefix |-> cached_prefix, slab |-> slab, lru_prio |-> lru_prio, now |-> now]

SetCache(c) ==
    /\ cached_prefix' = c.cached_prefix
    /\ slab' = c.slab
    /\ lru_prio' = c.lru_prio
    /\ now' = c.now

\* a panic ends the run; a run makes at most MaxOps calls
CanCall == built /\ ~out.panic /\ calls < MaxOps

Visit ==
    /\ CanCall
    /\ \E q \in Queries :
        \E r \in {visit(CurrentCache, q)} :
        /\ SetCache(r.cache)
        /\ calls' = calls + 1
        /\ used_ops' = used_ops \cup {"visit"}
        /\ out' = [op |-> "visit", q |-> q, b |-> 0, panic |-> r.panic,
                   set |-> EmptySet, list |-> r.li]
        /\ mid' = NoMid
    /\ UNCHANGED trieVars
    /\ UNCHANGED deduceVars

Assemble ==
    /\ CanCall
    /\ \E q \in Queries : \E b \in 0..MaxB :
        \E r \in {assemble(nodes, index, overflow_checks, CurrentCache, q, b)} :
        /\ SetCache(r.cache)
        /\ calls' = calls + 1
        /\ used_ops' = used_ops \cup {"assemble"}
        /\ out' = [op |-> "assemble", q |-> q, b |-> b, panic |-> r.panic,
                   set |-> r.set, list |-> <<>>]
        /\ mid' = [used |-> TRUE, visit1 |-> r.visit1.cached_prefix,
                   put |-> r.put.cached_prefix]
    /\ UNCHANGED trieVars
    /\ UNCHANGED deduceVars

Autocomplete ==
    /\ CanCall
    /\ \E q \in Queries :
        \E r \in {autocomplete(strings, nodes, index, overflow_checks, CurrentCache, q)} :
        /\ SetCache(r.cache)
        /\ calls' = calls + 1
        /\ used_ops' = used_ops \cup {"autocomplete"}
        /\ out' = [op |-> "autocomplete", q |-> q, b |-> 1, panic |-> r.panic,
                   set |-> r.set, list |-> r.list]
        /\ mid' = [used |-> TRUE, visit1 |-> r.visit1.cached_prefix,
                   put |-> r.put.cached_prefix]
    /\ UNCHANGED trieVars
    /\ UNCHANGED deduceVars

Prune ==
    /\ CanCall
    /\ \E r \in {prune(CurrentCache)} :
        /\ SetCache(r.cache)
        /\ calls' = calls + 1
        /\ used_ops' = used_ops \cup {"prune"}
        /\ out' = [op |-> "prune", q |-> <<>>, b |-> 0, panic |-> r.panic,
                   set |-> EmptySet, list |-> <<>>]
        /\ mid' = NoMid
    /\ UNCHANGED trieVars
    /\ UNCHANGED deduceVars

Next == Visit \/ Assemble \/ Autocomplete \/ Prune

Spec == Init /\ [][Next]_vars

(***************************************************************************)
(* Hash iteration orders: the loops over HashMap and HashSet iterators,    *)
(* run in every order the iterator can yield                               *)
(***************************************************************************)
\* every order in which an iterator can yield the elements of S
Orders(S) ==
    {f \in [1..Cardinality(S) -> S] :
        \A i, j \in 1..Cardinality(S) : i # j => f[i] # f[j]}

\* the visitor of first_deducing on node n2 with distance ded
Visited(ed, n2, ded, b) ==
    IF ded <= AsU(b)
    THEN [k \in DOMAIN ed \cup {n2} |->
             IF k # n2 THEN ed[k]
             ELSE IF n2 \in DOMAIN ed THEN Min2(ed[n2], ded) ELSE ded]
    ELSE ed

RECURSIVE VisitAll(_, _, _)
\* the visitor applied to the pairs <<n2, ded>> of cands in turn
VisitAll(ed, cands, b) ==
    IF cands = <<>> THEN ed
    ELSE VisitAll(Visited(ed, Head(cands)[1], Head(cands)[2], b), Tail(cands), b)

RECURSIVE CandidateSeq(_, _, _, _, _, _, _)
\* the pairs <<n2, ded>> the depth loop of first_deducing hands to the visitor
\* for m1, from depth on, in the order of the loop and of the id vectors
CandidateSeq(ns, ix, m1, character, query_len, b, depth) ==
    IF depth > Min2(ns[m1[2] + 1].depth + b + 1, max_depth(ix)) THEN <<>>
    ELSE (IF AbsDiff(query_len, depth) <= b
          THEN LET ids == traverse_inverted_index(ns, ix, m1[2], depth, character).ids
               IN [j \in 1..Len(ids) |->
                      <<ids[j], AsU(deduced_edit_distance(m1, query_len - 1,
                                                          SatSub(depth, 1), ns))>>]
          ELSE <<>>)
         \o CandidateSeq(ns, ix, m1, character, query_len, b, depth + 1)

RECURSIVE FirstLoop(_, _, _, _, _, _, _, _)
\* the loop of first_deducing over set.iter() yielding order: [panic, ed]
FirstLoop(ns, ix, oc, order, character, query_len, b, ed) ==
    IF order = <<>> THEN [panic |-> FALSE, ed |-> ed]
    ELSE IF oc /\ FirstFilterOverflows(Head(order), query_len, b)
    THEN [panic |-> TRUE, ed |-> ed]
    ELSE FirstLoop(ns, ix, oc, Tail(order), character, query_len, b,
             IF FirstFilter(Head(order), query_len, b)
             THEN VisitAll(ed, CandidateSeq(ns, ix, Head(order), character, query_len, b,
                                            ns[Head(order)[2] + 1].depth + 1), b)
             ELSE ed)

RECURSIVE InsertSeq(_, _)
\* set.insert for the matchings of seq in turn
InsertSeq(set, seq) ==
    IF seq = <<>> THEN set
    ELSE InsertSeq(Insert(set, Head(seq)[1], Head(seq)[2], Head(seq)[3]), Tail(seq))

\* the results of the last loop of first_deducing over edit_distances
DeltaOutcomes(r, query_len) ==
    IF r.panic THEN {[panic |-> TRUE, delta |-> EmptySet]}
    ELSE {[panic |-> FALSE, delta |-> InsertSeq(EmptySet, o)] :
             o \in Orders({<<AsU(query_len), n, r.ed[n]>> : n \in DOMAIN r.ed})}

\* the results first_deducing can return over all iteration orders
FirstDeducingOutcomes(ns, ix, oc, set, character, query_len, b) ==
    UNION {DeltaOutcomes(FirstLoop(ns, ix, oc, order, character, query_len, b, <<>>),
                         query_len) : order \in Orders(Matchings(set))}

\* set_p4 after check accepted the keys K
InsertKeys(set_p4, K, e) ==
    [k \in DOMAIN set_p4 \cup K |-> IF k \in K THEN e ELSE set_p4[k]]

RECURSIVE SecondLoop(_, _, _, _, _, _, _, _, _)
\* one round of the loop of second_deducing for the result r of per_matching
SecondStep(ns, ix, oc, set, order, query, query_len, b, set_p4, r) ==
    IF r.panic THEN [panic |-> TRUE, delta |-> EmptySet]
    ELSE SecondLoop(ns, ix, oc, set, Tail(order), query, query_len, b,
                    InsertKeys(set_p4, r.keys, AsU(b)))

\* the loop of second_deducing over set.iter() yielding order: [panic, delta]
SecondLoop(ns, ix, oc, set, order, query, query_len, b, set_p4) ==
    IF order = <<>> THEN [panic |-> FALSE, delta |-> set_p4]
    ELSE IF oc /\ AsU(b) = 0 THEN [panic |-> TRUE, delta |-> EmptySet]
    ELSE IF SecondFilter(Head(order), query_len, b)
    THEN SecondStep(ns, ix, oc, set, order, query, query_len, b, set_p4,
                    per_matching(ns, ix, oc, set, query, query_len, b, Head(order)))
    ELSE SecondLoop(ns, ix, oc, set, Tail(order), query, query_len, b, set_p4)

\* the results second_deducing can return over all iteration orders
SecondDeducingOutcomes(ns, ix, oc, set, query, query_len, b) ==
    {SecondLoop(ns, ix, oc, set, order, query, query_len, b, EmptySet) :
        order \in Orders(Matchings(set))}

RECURSIVE UnionRowsOutcomes(_, _, _)
\* the maps the fold of assemble over li can build
UnionRowsOutcomes(cp, chars, li) ==
    IF li = <<>> THEN {EmptySet}
    ELSE {InsertSeq(a, o) :
             a \in UnionRowsOutcomes(cp, chars, SubSeq(li, 1, Len(li) - 1)),
             o \in Orders(Matchings(cp[KeyAt(chars, li[Len(li)])].sets[1]))}

RECURSIVE RaiseBudgetOutcomes(_, _, _, _, _, _, _)
\* the results of round t of the loop of assemble for the result r of
\* second_deducing
RaiseStepOutcomes(ns, ix, oc, row1, query_chars, t, b, r) ==
    IF r.panic THEN {[panic |-> TRUE, set |-> row1]}
    ELSE UNION {RaiseBudgetOutcomes(ns, ix, oc, InsertSeq(row1, o), query_chars, t + 1, b) :
                   o \in Orders(Matchings(r.delta))}

\* the results the loop for t in 2..=b of assemble can end with
RaiseBudgetOutcomes(ns, ix, oc, row1, query_chars, t, b) ==
    IF t > b THEN {[panic |-> FALSE, set |-> row1]}
    ELSE UNION {RaiseStepOutcomes(ns, ix, oc, row1, query_chars, t, b, r) :
                   r \in SecondDeducingOutcomes(ns, ix, oc, row1, query_chars,
                                                Len(query_chars), t)}

\* the results assemble can return from the rows of cp over all iteration orders
AssembleOutcomes(ns, ix, oc, cp, query_chars, b) ==
    UNION {RaiseBudgetOutcomes(ns, ix, oc, row1, query_chars, 2, b) :
              row1 \in UnionRowsOutcomes(cp, query_chars, find_prefixes(cp, query_chars))}

RECURSIVE InsertMeasured(_, _)
InsertMeasured(r, sorted) ==
    IF sorted = <<>> THEN <<r>>
    ELSE IF MeasuredLess(r, Head(sorted)) THEN <<r>> \o sorted
    ELSE <<Head(sorted)>> \o InsertMeasured(r, Tail(sorted))

\* mutant: the records stay in the order the HashSet yielded them
SortListMutant(seq) == seq

RECURSIVE SortList(_)
\* result.sort() on the Vec collected in the order seq
SortList(seq) ==
    IF seq = <<>> THEN <<>>
    ELSE InsertMeasured(seq[Len(seq)], SortList(SubSeq(seq, 1, Len(seq) - 1)))

\* the lists measure_results can return over all iteration orders of result
MeasureOutcomes(result, query) ==
    {SortList(o) :
        o \in Orders({[string |-> str,
                       prefix_distance |-> prefix_edit_distance(query, str)] :
                         str \in result})}

(***************************************************************************)
(* Properties of query runs                                                *)
(***************************************************************************)
RECURSIVE EditDistance(_, _)
\* the edit distance of two char sequences, by its recursive definition
EditDistance(x, y) ==
    IF x = <<>> THEN Len(y)
    ELSE IF y = <<>> THEN Len(x)
    ELSE Min2(Min2(EditDistance(Tail(x), y) + 1, EditDistance(x, Tail(y)) + 1),
              EditDistance(Tail(x), Tail(y)) + (IF Head(x) = Head(y) THEN 0 ELSE 1))

\* the least edit distance between query and a prefix of str (both strings)
PrefixDistance(query, str) ==
    LET x == Utf8Decode(query)
        y == Utf8Decode(str)
    IN MinOfSet({EditDistance(x, SubSeq(y, 1, k)) : k \in 0..Len(y)})

\* the stored strings within prefix edit distance b of query
BruteForce(query, b) == {str \in SeqToSet(strings) : PrefixDistance(query, str) <= b}

Returned == out.op \in {"assemble", "autocomplete"} /\ ~out.panic

\* C1: the strings in the string ranges of the nodes of the set assemble(q, b)
\* returns (b = 1 for autocomplete) are the stored strings within prefix edit
\* distance b of q.
C1_Completeness ==
    Returned => FillResults(strings, nodes, out.set) = BruteForce(out.q, out.b)

\* the outcome of a call: whether it panicked and the list it returned
Outcome(r) == [panic |-> r.panic, list |-> r.list]

\* C2: autocomplete(q) on a cache that only saw autocomplete calls for prefixes
\* of q returns what it returns on a fresh cache.
C2_CacheIdempotence ==
    (/\ out.op = "autocomplete"
     /\ used_ops = {"autocomplete"}
     /\ \A k \in DOMAIN cached_prefix : IsPrefixOf(k, Utf8Decode(out.q)))
        => Outcome(out) =
               Outcome(autocomplete(strings, nodes, index, overflow_checks, EmptyCache,
                                    out.q))

\* C3: autocomplete never panics, and returns an empty list when no stored
\* string meets the budget.
C3_NeverFails ==
    out.op = "autocomplete" =>
        /\ ~out.panic
        /\ BruteForce(out.q, 1) = {} => out.list = <<>>

\* C4: the list autocomplete returns is in ascending (prefix_distance, string)
\* order, holds no string twice, and each prefix_distance is the prefix edit
\* distance between the query and the record's string.
C4_ResultOrder ==
    (out.op = "autocomplete" /\ ~out.panic) =>
        /\ \A k \in 1..Len(out.list) :
               out.list[k].prefix_distance = PrefixDistance(out.q, out.list[k].string)
        /\ \A k \in 1..(Len(out.list) - 1) :
               \/ out.list[k].prefix_distance < out.list[k + 1].prefix_distance
               \/ /\ out.list[k].prefix_distance = out.list[k + 1].prefix_distance
                  /\ SeqLess(Utf8Decode(out.list[k].string),
                             Utf8Decode(out.list[k + 1].string))
        /\ \A j \in 1..Len(out.list) : \A k \in 1..Len(out.list) :
               j # k => out.list[j].string # out.list[k].string

\* autocomplete on a cache left by an earlier call returned two strings, the
\* first in string order with the greater distance
C4_Witness ==
    /\ out.op = "autocomplete"
    /\ ~out.panic
    /\ calls >= 2
    /\ Len(out.list) = 2
    /\ out.list[1].prefix_distance < out.list[2].prefix_distance
    /\ SeqLess(out.list[2].string, out.list[1].string)

\* C9: after autocomplete and assemble calls, prune leaves at most the capacity
\* of entries in the prefix cache.
C9_PruneCaps ==
    (out.op = "prune" /\ ~out.panic /\ "visit" \notin used_ops) =>
        Cardinality(DOMAIN cached_prefix) <= PruneCapacity

Populated(cp, k) == k \in DOMAIN cp /\ cp[k].sets # <<>>

\* C10: an entry populated inside an assemble call is still populated, with the
\* same row, when the call ends.
C10_EntryStaysPopulated ==
    mid.used =>
        \A k \in DOMAIN mid.put :
            Populated(mid.put, k) =>
                Populated(cached_prefix, k) /\ cached_prefix[k].sets = mid.put[k].sets

\* the row of every cached prefix
Rows(cp) == [k \in DOMAIN cp |-> cp[k].sets]

\* C11: autocomplete(q) issued again on the cache an autocomplete(q) call left
\* completes and leaves the same cached prefixes with the same rows.
C11_RepeatKeepsCache ==
    out.op = "autocomplete" =>
        LET r == autocomplete(strings, nodes, index, overflow_checks, CurrentCache, out.q)
        IN /\ ~r.panic
           /\ Rows(r.cache.cached_prefix) = Rows(cached_prefix)

\* the positions of the prefixes of chars that have an entry in cp
CachedPositions(cp, chars) ==
    {i \in 0..(Len(chars) - 1) : KeyAt(chars, i) \in DOMAIN cp}

\* C12: visit(q) returns one pair for every prefix of q that has an entry in the
\* cache when the call returns, in strictly increasing prefix length, the last
\* one being the entry of q.
C12_VisitReturnsPrefixes ==
    (out.op = "visit" /\ ~out.panic) =>
        LET chars == Utf8Decode(out.q) IN
        /\ SeqToSet(out.list) = CachedPositions(cached_prefix, chars)
        /\ \A i, j \in 1..Len(out.list) : i < j => out.list[i] < out.list[j]
        /\ out.list # <<>>
        /\ out.list[Len(out.list)] = Len(chars) - 1

\* a visit of a two-character query that finds one prefix cached and inserts the
\* other
C12_Witness ==
    /\ out.op = "visit"
    /\ ~out.panic
    /\ calls >= 2
    /\ Len(Utf8Decode(out.q)) = 2
    /\ Len(out.list) = 2

C16_MatchingsSound ==
    Returned =>
        LET chars == Utf8Decode(out.q) IN
        \A k \in DOMAIN out.set :
            /\ k[1] <= Len(chars)
            /\ out.set[k] <= out.b
            /\ EditDistance(SubSeq(chars, 1, k[1]), Utf8Decode(nodes[k[2] + 1].prefix))
                   <= out.set[k]

\* the row the cache holds for key, empty when there is none
RowOf(cp, key) ==
    IF key \in DOMAIN cp /\ cp[key].sets # <<>> THEN cp[key].sets[1] ELSE EmptySet

\* C17: after assemble(q, b) returns, the cache holds for every i in 1..|q| a
\* populated row for the prefix of length i, which is first deduction applied to
\* the row of length i - 1 (the root matching for i = 1) with the i-th character
\* and query length i at budget 1; its matchings have query_prefix_len = i.
C17_RowsByInduction ==
    Returned =>
        LET chars == Utf8Decode(out.q) IN
        \A i \in 1..Len(chars) :
            LET key == SubSeq(chars, 1, i)
                prev == IF i = 1 THEN new_trie(nodes)
                        ELSE RowOf(cached_prefix, SubSeq(chars, 1, i - 1))
            IN /\ key \in DOMAIN cached_prefix
               /\ cached_prefix[key].sets # <<>>
               /\ \A k \in DOMAIN RowOf(cached_prefix, key) : k[1] = i
               /\ RowOf(cached_prefix, key)
                      = first_deducing(nodes, index, overflow_checks, prev, chars[i], i,
                                       1).delta

\* C23: after any sequence of visit, assemble and prune calls, the LRU index
\* maps the timestamp of every entry of the prefix cache to a set that contains
\* the entry's slab handle.
C23_LruIndexConsistent ==
    (used_ops \subseteq {"visit", "assemble", "prune"} /\ ~out.panic) =>
        \A k \in DOMAIN cached_prefix :
            /\ cached_prefix[k].prio \in DOMAIN lru_prio
            /\ cached_prefix[k].ix \in lru_prio[cached_prefix[k].prio]

\* C24: after any sequence of visit and assemble calls, the slab handle of
\* every entry of the prefix cache names the slab slot that holds the entry's
\* own prefix, and the slab holds exactly one slot per entry.
C24_SlabHandleConsistent ==
    (used_ops \subseteq {"visit", "assemble"} /\ ~out.panic) =>
        /\ \A k \in DOMAIN cached_prefix :
               /\ cached_prefix[k].ix < Len(slab)
               /\ Utf8Decode(slab[cached_prefix[k].ix + 1]) = k
        /\ Len(slab) = Cardinality(DOMAIN cached_prefix)

(***************************************************************************)
(* Properties of the built trie and index                                  *)
(***************************************************************************)
IsPrefix(a, b) == Len(a) <= Len(b) /\ SubSeq(b, 1, Len(a)) = a
IsProperPrefix(a, b) == Len(a) < Len(b) /\ SubSeq(b, 1, Len(a)) = a

\* the characters of the prefix a node stands for
PrefixChars(node) == Utf8Decode(node.prefix)

NodeIxs == 1..Len(nodes)

InDescendantRange(m, n) ==
    NodeId(m) < NodeId(n) /\ NodeId(n) < m.descendant_range.end

\* C5: n.id lies in m.descendant_range exactly when m's prefix is a proper
\* prefix of n's prefix; the root has id 0 and its range covers every other node.
C5_DescendantRange ==
    built =>
        /\ \A i \in NodeIxs : \A j \in NodeIxs :
               InDescendantRange(nodes[i], nodes[j])
                   <=> IsProperPrefix(PrefixChars(nodes[i]), PrefixChars(nodes[j]))
        /\ NodeId(nodes[1]) = 0
        /\ nodes[1].descendant_range.end = Len(nodes)
        /\ nodes[1].prefix = <<>>

\* a trie with a node that has a descendant and a later node outside its range
C5_Witness ==
    /\ built
    /\ \E i \in NodeIxs : \E j \in NodeIxs : \E k \in NodeIxs :
          /\ i > 1
          /\ InDescendantRange(nodes[i], nodes[j])
          /\ NodeId(nodes[k]) >= nodes[i].descendant_range.end

SourceSet == {source[k] : k \in 1..Len(source)}

InStringRange(node, j) == node.string_range.start <= j /\ j < node.string_range.end

\* C6: the stored strings are the dataset in strictly ascending code-point
\* order without duplicates, and a node's string_range holds exactly the indices
\* of the strings that start with the node's prefix.
C6_StringRange ==
    built =>
        /\ {strings[k] : k \in 1..Len(strings)} = SourceSet
        /\ \A k \in 1..(Len(strings) - 1) :
               SeqLess(Utf8Decode(strings[k]), Utf8Decode(strings[k + 1]))
        /\ \A i \in NodeIxs : \A j \in 0..(Len(strings) - 1) :
               InStringRange(nodes[i], j)
                   <=> IsPrefix(PrefixChars(nodes[i]), Utf8Decode(strings[j + 1]))

\* an unsorted dataset with a duplicate and a two-byte character, whose trie
\* has an inner node with two strings
C6_Witness ==
    /\ built
    /\ Len(source) = 3
    /\ Cardinality(SourceSet) = 2
    /\ SeqLess(source[3], source[1])
    /\ \E k \in 1..Len(source) : \E x \in 1..Len(source[k]) : source[k][x] > 127
    /\ \E i \in NodeIxs :
          i > 1 /\ nodes[i].string_range.end - nodes[i].string_range.start = 2

IsStrictlyAscending(xs) == \A k \in 1..(Len(xs) - 1) : xs[k] < xs[k + 1]

InSeq(x, xs) == \E k \in 1..Len(xs) : xs[k] = x

\* C7: every non-root node's id is in index[depth][character], every bucket is
\* strictly ascending, and the index has 1 + (maximum node depth) depths.
C7_InvertedIndex ==
    built =>
        /\ \A i \in NodeIxs :
               i > 1 =>
                   /\ nodes[i].depth + 1 \in DOMAIN index
                   /\ nodes[i].character \in DOMAIN index[nodes[i].depth + 1]
                   /\ InSeq(NodeId(nodes[i]),
                            index[nodes[i].depth + 1][nodes[i].character])
        /\ \A d \in DOMAIN index : \A c \in DOMAIN index[d] :
               IsStrictlyAscending(index[d][c])
        /\ \E i \in NodeIxs :
               /\ \A k \in NodeIxs : nodes[k].depth <= nodes[i].depth
               /\ Len(index) = 1 + nodes[i].depth

\* an index with a bucket of two ids at depth 2
C7_Witness ==
    /\ built
    /\ Len(index) = 3
    /\ \E c \in DOMAIN index[3] : Len(index[3][c]) = 2

\* the ids of the nodes of the given depth and character whose prefix properly
\* extends the prefix of node p
ProperDescendantIds(p, depth, character) ==
    {NodeId(nodes[k]) : k \in {j \in NodeIxs :
        /\ nodes[j].depth = depth
        /\ nodes[j].character = character
        /\ IsProperPrefix(PrefixChars(nodes[p + 1]), PrefixChars(nodes[j]))}}

\* C21: for a depth in [0, max_depth], traverse_inverted_index(p, depth, c) hands
\* the visitor each node of that depth and character that is a proper descendant
\* of p exactly once, in ascending id order, and no other node.
C21_DescendantEnumeration ==
    (dout.op = "traverse" /\ dout.depth <= max_depth(index)) =>
        /\ ~dout.panic
        /\ IsStrictlyAscending(dout.ids)
        /\ SeqToSet(dout.ids) = ProperDescendantIds(dout.node, dout.depth, dout.character)

\* a traversal from a non-root node whose bucket also holds a node outside the
\* subtree: one id is visited, the other is not
C21_Witness ==
    /\ dout.op = "traverse"
    /\ dout.node > 0
    /\ dout.depth <= max_depth(index)
    /\ Len(dout.ids) = 1
    /\ Len(IndexGet(index, dout.depth, dout.character).ids) = 2

\* the positions of the bytes of a UTF-8 string that start a character
CharStarts(bytes) == {j \in 1..Len(bytes) : bytes[j] \notin 128..191}

\* the position of the byte that starts the last character of a non-empty
\* UTF-8 string: a character has at most four bytes
LastStart(bytes) ==
    CHOOSE j \in Max2(1, Len(bytes) - 3)..Len(bytes) :
        /\ bytes[j] \notin 128..191
        /\ \A k \in (j + 1)..Len(bytes) : bytes[k] \in 128..191

\* the last character of a non-empty UTF-8 string
LastChar(bytes) == FirstChar(ByteSuffix(bytes, LastStart(bytes) - 1))

\* the prefixes of a UTF-8 string that end at a character boundary
CharPrefixes(bytes) == {SubSeq(bytes, 1, j - 1) : j \in CharStarts(bytes)} \cup {bytes}

\* the distinct prefixes of the stored strings, the empty prefix included
StoredPrefixes == {<<>>} \cup UNION {CharPrefixes(strings[k]) : k \in 1..Len(strings)}

\* the positions of the nodes whose prefix properly extends that of node i
DescendantIxs(i) == {j \in NodeIxs : IsProperPrefix(nodes[i].prefix, nodes[j].prefix)}

\* the prefix of the parent of a non-root node
ParentPrefix(node) == SubSeq(node.prefix, 1, LastStart(node.prefix) - 1)

\* Trie::new has returned
TrieReturned == built \/ build.phase = "done"

\* C22 (nodes): the trie has exactly one node per distinct prefix of the stored
\* strings, the empty prefix of the root included.
OneNodePerPrefix ==
    /\ {nodes[k].prefix : k \in NodeIxs} = StoredPrefixes
    /\ \A i \in NodeIxs : \A j \in NodeIxs : nodes[i].prefix = nodes[j].prefix => i = j
    /\ nodes[1].prefix = <<>>

\* C22 (ids): a node's id is its position in the node vector, and the ids are
\* in pre-order: the descendants of a node are the nodes right after it.
PreOrderIds ==
    \A i \in NodeIxs :
        /\ NodeId(nodes[i]) = i - 1
        /\ DescendantIxs(i) = (i + 1)..(i + Cardinality(DescendantIxs(i)))

\* C22 (depth): a node's depth is the number of characters of its prefix.
DepthIsCharLength ==
    \A i \in NodeIxs : nodes[i].depth = CharCount(nodes[i].prefix)

\* C22 (character): a non-root node's character is the last one of its prefix.
CharacterIsLast ==
    \A i \in NodeIxs : i > 1 => nodes[i].character = LastChar(nodes[i].prefix)

\* C22 (siblings): the children of one node appear in ascending character order.
SiblingsAscend ==
    \A i \in NodeIxs : \A j \in NodeIxs :
        (1 < i /\ i < j /\ ParentPrefix(nodes[i]) = ParentPrefix(nodes[j]))
            => nodes[i].character < nodes[j].character

\* C22: the trie built from any dataset has one node per distinct prefix, ids in
\* pre-order equal to the position in the node vector, depth equal to the
\* character length of the prefix, character equal to the last character of the
\* prefix, and siblings in ascending character order.
C22_TrieShape ==
    TrieReturned =>
        /\ OneNodePerPrefix
        /\ PreOrderIds
        /\ DepthIsCharLength
        /\ CharacterIsLast
        /\ SiblingsAscend

====
